---- MODULE Spec2Model ----
(***************************************************************************)
(* Model of the two S3 purge scripts                                       *)
(*   src/deleting_s3_objects.py            list_and_delete_objects         *)
(*   src/python/s3_delete_objects_and_versions.py   delete_all_versions    *)
(* One run of one of the two functions is a state machine whose steps are  *)
(* the backend calls (one listing call per page, one deletion call per     *)
(* object or per batch) and the blocks of printing between them.  The      *)
(* backend (boto3 client and paginator) is the environment: what a listing *)
(* returns, whether a call raises and what a bulk delete reports as        *)
(* Errors are chosen nondeterministically.                                 *)
(***************************************************************************)
EXTENDS Integers, Sequences, FiniteSets, TLC

VARIABLES
    fn,                 \* which function runs
    prefix,             \* argument prefix
    search_word,        \* argument search_word ("" and unused in delete_all_versions)
    dry_run,            \* argument dry_run
    pages,              \* what paginator.paginate(...) yields, page by page
    bucket,             \* the (Key, VersionId) pairs stored in the backend
    pc,                 \* position of the run
    page_idx,           \* pages consumed so far by the for-loop over the paginator
    objects_to_delete,  \* the local list objects_to_delete
    i,                  \* offset of the deletion loop into objects_to_delete
    calls,              \* backend calls issued so far, in order, with their outcome
    output,             \* lines printed so far, in order
    ret                 \* what the function returned

vars == <<fn, prefix, search_word, dry_run, pages, bucket, pc, page_idx,
          objects_to_delete, i, calls, output, ret>>

----------------------------------------------------------------------------
(* Bounds of the model *)

\* largest page size tried on the small listings
SmallPage == 2

\* page size of the backend on the large listings
MaxKeys == 1000

\* sizes of the large listings
LargeSizes == {999, 1000, 1001, 2000, 2001, 2500}

Prefixes == {"", "a/", "b/"}

SearchWords == {"", "error", "x."}

\* the small bucket, in the order a listing returns it
ListingOrder ==
    << [Key |-> "a/error.txt", VersionId |-> "m1", IsLatest |-> TRUE,  IsDeleteMarker |-> TRUE],
       [Key |-> "a/error.txt", VersionId |-> "v2", IsLatest |-> FALSE, IsDeleteMarker |-> FALSE],
       [Key |-> "a/error.txt", VersionId |-> "v1", IsLatest |-> FALSE, IsDeleteMarker |-> FALSE],
       [Key |-> "a/x.txt",     VersionId |-> "v1", IsLatest |-> TRUE,  IsDeleteMarker |-> FALSE],
       [Key |-> "b/error.txt", VersionId |-> "v1", IsLatest |-> TRUE,  IsDeleteMarker |-> FALSE] >>

\* a large listing of n entries under "a/": two versions per key, every fifth
\* entry a delete marker
LargeListing(n) ==
    [j \in 1..n |->
        [Key |-> "a/part" \o ToString((j + 1) \div 2), VersionId |-> ToString(j),
         IsLatest |-> (j % 2 = 1), IsDeleteMarker |-> (j % 5 = 0)]]

----------------------------------------------------------------------------
(* Values *)

FnFilter == "list_and_delete_objects"

FnBatch == "delete_all_versions"

\* the batch size of delete_all_versions
BatchSize == 1000

\* Python's None, and a returned list
NoneValue == <<"None">>

ListValue(l) == <<"list", l>>

NotReturned == <<"running">>

Min(a, b) == IF a < b THEN a ELSE b

\* Python: w in s
Contains(w, s) ==
    \E k \in 1..(Len(s) - Len(w) + 1) : SubSeq(s, k, k + Len(w) - 1) = w

\* {'Key': e['Key'], 'VersionId': e['VersionId']}
Ref(e) == [Key |-> e.Key, VersionId |-> e.VersionId]

\* page.get(field, [])
PageGet(page, field) == IF field \in DOMAIN page THEN page[field] ELSE <<>>

----------------------------------------------------------------------------
(* The backend's listing *)

ListEntry(e) == [Key |-> e.Key, VersionId |-> e.VersionId, IsLatest |-> e.IsLatest]

ListEntries(s) == [j \in 1..Len(s) |-> ListEntry(s[j])]

\* one response page: the keys Versions and DeleteMarkers are present only
\* when the page holds such entries
PageOf(chunk, truncated) ==
    LET vs == ListEntries(SelectSeq(chunk, LAMBDA e : ~e.IsDeleteMarker))
        ms == ListEntries(SelectSeq(chunk, LAMBDA e : e.IsDeleteMarker))
    IN  IF vs # <<>> /\ ms # <<>>
          THEN [IsTruncated |-> truncated, Versions |-> vs, DeleteMarkers |-> ms]
        ELSE IF vs # <<>> THEN [IsTruncated |-> truncated, Versions |-> vs]
        ELSE IF ms # <<>> THEN [IsTruncated |-> truncated, DeleteMarkers |-> ms]
        ELSE [IsTruncated |-> truncated]

RECURSIVE Chunks(_, _)
Chunks(listing, k) ==
    IF Len(listing) <= k
      THEN <<PageOf(listing, FALSE)>>
      ELSE <<PageOf(SubSeq(listing, 1, k), TRUE)>>
           \o Chunks(SubSeq(listing, k + 1, Len(listing)), k)

\* the pages the paginator yields for a listing, k entries to a page
Paginate(listing, k) == Chunks(listing, k)

AllRefs(ps) ==
    UNION { {Ref(PageGet(ps[p], "Versions")[j]) : j \in 1..Len(PageGet(ps[p], "Versions"))}
            \cup {Ref(PageGet(ps[p], "DeleteMarkers")[j]) :
                    j \in 1..Len(PageGet(ps[p], "DeleteMarkers"))} : p \in 1..Len(ps) }

SmallRefs == {Ref(ListingOrder[j]) : j \in 1..Len(ListingOrder)}

\* the bucket's contents when the run starts
InitialBucket == SmallRefs \cup AllRefs(pages)

----------------------------------------------------------------------------
(* The scan *)

\* a scan that does not test the search word
MatchesAll(key) == TRUE

\* the filter of the scan: list_and_delete_objects tests the search word,
\* delete_all_versions takes every entry
Matches(key) == IF fn = FnFilter THEN Contains(search_word, key) ELSE TRUE

KeepRefs(entries) ==
    LET kept == SelectSeq(entries, LAMBDA e : Matches(e.Key))
    IN  [j \in 1..Len(kept) |-> Ref(kept[j])]

\* a scan that forgets the delete markers
ScanPageVersionsOnly(page) == KeepRefs(PageGet(page, "Versions"))

\* what one page adds to objects_to_delete
ScanPage(page) ==
    KeepRefs(PageGet(page, "Versions")) \o KeepRefs(PageGet(page, "DeleteMarkers"))

\* a scan that stops after its first page
ScanExhaustedEarly == page_idx >= 1

\* the for-loop over the paginator has ended
ScanExhausted == page_idx = Len(pages)

\* an emptiness test that never fires
NoObjectsNever == FALSE

\* not objects_to_delete
NoObjects == objects_to_delete = <<>>

\* the dry-run test inverted
SkipDeletionInverted == ~dry_run

\* if dry_run
SkipDeletion == dry_run

----------------------------------------------------------------------------
(* The purge *)

\* a slice one entry too long: objects_to_delete[i:i+1001]
BatchOverlap(objs, k) == SubSeq(objs, k + 1, Min(k + BatchSize + 1, Len(objs)))

\* objects_to_delete[i:i+1000]
Batch(objs, k) == SubSeq(objs, k + 1, Min(k + BatchSize, Len(objs)))

\* range(0, len(objects_to_delete), 1000): the next offset
NextOffset(k) == k + BatchSize

\* i // 1000 + 1
BatchNumber(k) == k \div BatchSize + 1

\* the entries a bulk delete may report under Errors
ErrorChoices(batch) == {<<>>, <<batch[1]>>, <<batch[Len(batch)]>>, batch}

SeqSet(s) == {s[j] : j \in 1..Len(s)}

----------------------------------------------------------------------------
(* Initial states *)

InitRun ==
    /\ pc = "Idle"
    /\ page_idx = 0
    /\ objects_to_delete = <<>>
    /\ i = 0
    /\ calls = <<>>
    /\ output = <<>>
    /\ ret = NotReturned
    /\ bucket = InitialBucket

InitSmall ==
    /\ fn \in {FnFilter, FnBatch}
    /\ prefix \in Prefixes
    /\ search_word \in (IF fn = FnFilter THEN SearchWords ELSE {""})
    /\ dry_run \in BOOLEAN
    /\ \E S \in SUBSET (1..Len(ListingOrder)), k \in (1..SmallPage) \cup {MaxKeys} :
          pages = Paginate(SelectSeq(ListingOrder,
                                     LAMBDA e : \E j \in S : ListingOrder[j] = e), k)

InitLarge ==
    /\ fn = FnBatch
    /\ prefix = "a/"
    /\ search_word = ""
    /\ dry_run \in BOOLEAN
    /\ \E n \in LargeSizes : pages = Paginate(LargeListing(n), MaxKeys)

Init == (InitSmall \/ InitLarge) /\ InitRun

----------------------------------------------------------------------------
(* Steps *)

ListCall(result) == [op |-> "list_object_versions", Prefix |-> prefix, result |-> result]

\* boto3.client, get_paginator and the "Searching ..." line
Start ==
    /\ pc = "Idle"
    /\ pc' = "Scanning"
    /\ output' = Append(output, <<"searching">>)
    /\ UNCHANGED <<fn, prefix, search_word, dry_run, pages, bucket, page_idx,
                   objects_to_delete, i, calls, ret>>

\* one iteration of the loop over the paginator
ListPage ==
    /\ pc = "Scanning"
    /\ page_idx < Len(pages)
    /\ calls' = Append(calls, ListCall("ok"))
    /\ page_idx' = page_idx + 1
    /\ objects_to_delete' = objects_to_delete \o ScanPage(pages[page_idx + 1])
    /\ UNCHANGED <<fn, prefix, search_word, dry_run, pages, bucket, pc, i, output, ret>>

\* the listing call raises: the exception leaves the function
ListPageRaises ==
    /\ pc = "Scanning"
    /\ page_idx < Len(pages)
    /\ calls' = Append(calls, ListCall("raised"))
    /\ pc' = "Aborted"
    /\ UNCHANGED <<fn, prefix, search_word, dry_run, pages, bucket, page_idx,
                   objects_to_delete, i, output, ret>>

\* if not objects_to_delete: print, return
ReturnEmpty ==
    /\ pc = "Scanning"
    /\ ScanExhausted
    /\ NoObjects
    /\ output' = Append(output, <<"no_objects_found">>)
    /\ ret' = NoneValue
    /\ pc' = "EmptyDone"
    /\ UNCHANGED <<fn, prefix, search_word, dry_run, pages, bucket, page_idx,
                   objects_to_delete, i, calls>>

CandidateLines(objs) ==
    [j \in 1..Len(objs) |-> <<"candidate", objs[j].Key, objs[j].VersionId>>]

\* the "Objects to delete (...)" header and one line per candidate
Report ==
    /\ pc = "Scanning"
    /\ ScanExhausted
    /\ ~NoObjects
    /\ output' = (Append(output, <<"header", IF dry_run THEN "DRY-RUN" ELSE "EXECUTION">>)
                    \o CandidateLines(objects_to_delete))
    /\ pc' = "Reporting"
    /\ UNCHANGED <<fn, prefix, search_word, dry_run, pages, bucket, page_idx,
                   objects_to_delete, i, calls, ret>>

\* if dry_run: print, return
ReturnDryRun ==
    /\ pc = "Reporting"
    /\ SkipDeletion
    /\ output' = Append(output, <<"dry_run_notice">>)
    /\ ret' = NoneValue
    /\ pc' = "DryRunDone"
    /\ UNCHANGED <<fn, prefix, search_word, dry_run, pages, bucket, page_idx,
                   objects_to_delete, i, calls>>

\* the "Deleting ..." line before the deletion loop
BeginPurge ==
    /\ pc = "Reporting"
    /\ ~SkipDeletion
    /\ output' = Append(output, <<"deleting">>)
    /\ i' = 0
    /\ pc' = "Purging"
    /\ UNCHANGED <<fn, prefix, search_word, dry_run, pages, bucket, page_idx,
                   objects_to_delete, calls, ret>>

\* list_and_delete_objects: one iteration of the deletion loop
DeleteObject ==
    /\ pc = "Purging"
    /\ fn = FnFilter
    /\ i < Len(objects_to_delete)
    /\ LET obj == objects_to_delete[i + 1] IN
         /\ output' = Append(output, <<"deleting_key", obj.Key, obj.VersionId>>)
         /\ calls' = Append(calls, [op |-> "delete_object", Key |-> obj.Key,
                                    VersionId |-> obj.VersionId, result |-> "ok"])
         /\ bucket' = bucket \ {obj}
    /\ i' = i + 1
    /\ UNCHANGED <<fn, prefix, search_word, dry_run, pages, pc, page_idx,
                   objects_to_delete, ret>>

\* list_and_delete_objects: delete_object raises
DeleteObjectRaises ==
    /\ pc = "Purging"
    /\ fn = FnFilter
    /\ i < Len(objects_to_delete)
    /\ LET obj == objects_to_delete[i + 1] IN
         /\ output' = Append(output, <<"deleting_key", obj.Key, obj.VersionId>>)
         /\ calls' = Append(calls, [op |-> "delete_object", Key |-> obj.Key,
                                    VersionId |-> obj.VersionId, result |-> "raised"])
    /\ pc' = "Aborted"
    /\ UNCHANGED <<fn, prefix, search_word, dry_run, pages, bucket, page_idx,
                   objects_to_delete, i, ret>>

\* delete_all_versions: one iteration of the batch loop; the response of
\* delete_objects (Deleted, Errors) is not read
DeleteObjects ==
    /\ pc = "Purging"
    /\ fn = FnBatch
    /\ i < Len(objects_to_delete)
    /\ LET batch == Batch(objects_to_delete, i) IN
         \E errors \in ErrorChoices(batch) :
            /\ calls' = Append(calls, [op |-> "delete_objects", Objects |-> batch,
                                       Errors |-> errors, result |-> "ok"])
            /\ bucket' = bucket \ (SeqSet(batch) \ SeqSet(errors))
            /\ output' = Append(output, <<"deleted", Len(batch), BatchNumber(i)>>)
    /\ i' = NextOffset(i)
    /\ UNCHANGED <<fn, prefix, search_word, dry_run, pages, pc, page_idx,
                   objects_to_delete, ret>>

\* delete_objects raises and the loop swallows the exception and goes on
DeleteObjectsRaisesSwallowed ==
    /\ pc = "Purging"
    /\ fn = FnBatch
    /\ i < Len(objects_to_delete)
    /\ calls' = Append(calls, [op |-> "delete_objects",
                               Objects |-> SubSeq(objects_to_delete, i + 1,
                                                  Min(i + BatchSize, Len(objects_to_delete))),
                               Errors |-> <<>>, result |-> "raised"])
    /\ i' = i + BatchSize
    /\ UNCHANGED <<fn, prefix, search_word, dry_run, pages, bucket, pc, page_idx,
                   objects_to_delete, output, ret>>

\* delete_all_versions: delete_objects raises
DeleteObjectsRaises ==
    /\ pc = "Purging"
    /\ fn = FnBatch
    /\ i < Len(objects_to_delete)
    /\ calls' = Append(calls, [op |-> "delete_objects",
                               Objects |-> Batch(objects_to_delete, i),
                               Errors |-> <<>>, result |-> "raised"])
    /\ pc' = "Aborted"
    /\ UNCHANGED <<fn, prefix, search_word, dry_run, pages, bucket, page_idx,
                   objects_to_delete, i, output, ret>>

\* the "Deletion complete." line and the end of the function
Complete ==
    /\ pc = "Purging"
    /\ i >= Len(objects_to_delete)
    /\ output' = Append(output, <<"complete">>)
    /\ ret' = NoneValue
    /\ pc' = "Done"
    /\ UNCHANGED <<fn, prefix, search_word, dry_run, pages, bucket, page_idx,
                   objects_to_delete, i, calls>>

Next ==
    \/ Start
    \/ ListPage
    \/ ListPageRaises
    \/ ReturnEmpty
    \/ Report
    \/ ReturnDryRun
    \/ BeginPurge
    \/ DeleteObject
    \/ DeleteObjectRaises
    \/ DeleteObjects
    \/ DeleteObjectsRaises
    \/ Complete

Spec == Init /\ [][Next]_vars

\* a run that is not finished takes its next step
FairSpec == Spec /\ WF_vars(Next)

----------------------------------------------------------------------------
(* Vocabulary of the properties *)

\* Python: s.startswith(p)
StartsWith(s, p) == Len(p) <= Len(s) /\ SubSeq(s, 1, Len(p)) = p

IsDelete(c) == c.op \in {"delete_object", "delete_objects"}

DeleteCalls(cs) == SelectSeq(cs, IsDelete)

ListCalls(cs) == SelectSeq(cs, LAMBDA c : c.op = "list_object_versions")

\* the entries one deletion call carries
Carried(c) ==
    IF c.op = "delete_objects" THEN c.Objects
    ELSE <<[Key |-> c.Key, VersionId |-> c.VersionId]>>

\* the entries sent for deletion by a sequence of deletion calls, in order
RECURSIVE Sent(_)
Sent(ds) == IF ds = <<>> THEN <<>> ELSE Carried(Head(ds)) \o Sent(Tail(ds))

\* the entries the backend removed on behalf of a sequence of deletion calls
Removed(ds) ==
    UNION { IF ds[j].result # "ok" THEN {}
            ELSE IF ds[j].op = "delete_objects"
                   THEN SeqSet(ds[j].Objects) \ SeqSet(ds[j].Errors)
            ELSE SeqSet(Carried(ds[j])) : j \in 1..Len(ds) }

OutputLines(kind) == SelectSeq(output, LAMBDA l : l[1] = kind)

\* the entries of the pages, page after page, versions before delete markers
RECURSIVE Listed(_, _)
Listed(ps, n) ==
    IF n = 0 THEN <<>>
    ELSE Listed(ps, n - 1) \o PageGet(ps[n], "Versions") \o PageGet(ps[n], "DeleteMarkers")

\* the filter the run was asked to apply to a key
Passes(key) == fn = FnFilter => Contains(search_word, key)

\* the candidates the first n pages must give
Expected(n) ==
    LET kept == SelectSeq(Listed(pages, n), LAMBDA e : Passes(e.Key))
    IN  [j \in 1..Len(kept) |-> [Key |-> kept[j].Key, VersionId |-> kept[j].VersionId]]

\* the listing returned only keys under the requested prefix
ListingHonoursPrefix ==
    LET listed == Listed(pages, Len(pages))
    IN  \A j \in 1..Len(listed) : StartsWith(listed[j].Key, prefix)

Terminal == {"EmptyDone", "DryRunDone", "Done"}

----------------------------------------------------------------------------
(* C1: with dry_run = true no deletion call (delete_object or delete_objects)
   is ever issued, in any state of the run, and the bucket keeps the
   contents it started with. *)
C1_DryRunSafety ==
    dry_run => /\ Len(DeleteCalls(calls)) = 0
               /\ bucket = InitialBucket

\* a dry run over several pages and several candidates has ended
C1_Witness ==
    /\ dry_run
    /\ pc = "DryRunDone"
    /\ Len(pages) >= 2
    /\ Len(objects_to_delete) >= 2

(* C2: a completed run of delete_all_versions with dry_run = false over N >= 1
   candidates has issued exactly ceil(N/1000) delete_objects calls, each
   carrying between 1 and 1000 entries, whose batches concatenated in call
   order are the candidate list; for N = 2500 the sizes are 1000, 1000, 500. *)
C2_BatchPartition ==
    (fn = FnBatch /\ pc = "Done") =>
        LET ds == DeleteCalls(calls)
            n  == Len(objects_to_delete)
        IN  /\ n >= 1
            /\ Len(calls) = Len(ListCalls(calls)) + Len(ds)
            /\ Len(ds) = (IF n % 1000 = 0 THEN n \div 1000 ELSE n \div 1000 + 1)
            /\ \A j \in 1..Len(ds) :
                  /\ ds[j].op = "delete_objects"
                  /\ Len(ds[j].Objects) \in 1..1000
            /\ Sent(ds) = objects_to_delete
            /\ Cardinality(SeqSet(Sent(ds))) = n
            /\ (n = 2500 => [j \in 1..Len(ds) |-> Len(ds[j].Objects)] = <<1000, 1000, 500>>)

\* the run over 2500 candidates has completed
C2_Witness ==
    /\ fn = FnBatch
    /\ pc = "Done"
    /\ Len(objects_to_delete) = 2500

(* C3, as claimed: every entry of objects_to_delete has a key that starts with
   the requested prefix and, in list_and_delete_objects, contains the search
   word, whatever the listing pages return. *)
C3_FilterInvariantAsClaimed ==
    \A j \in 1..Len(objects_to_delete) :
        /\ StartsWith(objects_to_delete[j].Key, prefix)
        /\ (fn = FnFilter => Contains(search_word, objects_to_delete[j].Key))

(* C3, amended: every entry of objects_to_delete has, in
   list_and_delete_objects, a key that contains the search word, whatever the
   listing pages return; its key starts with the requested prefix whenever the
   listing returned only keys under that prefix. *)
C3_FilterInvariant ==
    /\ \A j \in 1..Len(objects_to_delete) :
          fn = FnFilter => Contains(search_word, objects_to_delete[j].Key)
    /\ ListingHonoursPrefix =>
          \A j \in 1..Len(objects_to_delete) : StartsWith(objects_to_delete[j].Key, prefix)

\* a scan with a search word that kept some entries of a listing under the
\* prefix and dropped others
C3_Witness ==
    /\ fn = FnFilter
    /\ search_word = "error"
    /\ prefix = "a/"
    /\ ListingHonoursPrefix
    /\ page_idx = Len(pages)
    /\ Len(objects_to_delete) >= 2
    /\ Len(objects_to_delete) < Cardinality(AllRefs(pages))

(* C4: a run whose prefix is the empty string makes no backend call, neither
   a listing nor a deletion, and deletes nothing. *)
C4_EmptyPrefixRejected ==
    prefix = "" => /\ calls = <<>>
                   /\ bucket = InitialBucket

(* C5: when the scan ends with an empty candidate list the run ends after the
   "no objects found" notice, for either value of dry_run: no candidate line
   is printed, no deletion call is issued, the purge is never entered. *)
C5_EmptyIsTerminal ==
    (page_idx = Len(pages) /\ objects_to_delete = <<>> /\ pc \notin {"Idle", "Scanning"}) =>
        /\ pc = "EmptyDone"
        /\ output = <<<<"searching">>, <<"no_objects_found">>>>
        /\ Len(DeleteCalls(calls)) = 0
        /\ bucket = InitialBucket

\* an execution run whose listing had entries, none of which passed the filter
C5_Witness ==
    /\ pc = "EmptyDone"
    /\ ~dry_run
    /\ AllRefs(pages) # {}

(* C6: the count printed as deleted for a batch is the number of entries the
   backend deleted in that batch, not the batch size when some entries are
   reported under Errors. *)
C6_PartialFailureSurfaced ==
    fn = FnBatch =>
        LET ds    == SelectSeq(DeleteCalls(calls), LAMBDA c : c.result = "ok")
            lines == OutputLines("deleted")
        IN  /\ Len(lines) = Len(ds)
            /\ \A j \in 1..Len(ds) :
                  lines[j][2] = Len(ds[j].Objects) - Len(ds[j].Errors)

(* C7: when the k-th delete_objects call raises, no backend call follows it
   (no later batch, no second attempt), the run is aborted and never prints
   "Deletion complete", the deletions of batches 1..k-1 stay in effect, and
   the output holds the "Deleted ... in batch" lines of batches 1..k-1 and no
   other. *)
C7_AbortOnBatchFailure ==
    fn = FnBatch =>
        /\ \A j \in 1..Len(calls) : calls[j].result = "raised" => j = Len(calls)
        /\ (calls # <<>> /\ calls[Len(calls)].result = "raised"
              /\ calls[Len(calls)].op = "delete_objects") =>
             LET ds == DeleteCalls(calls)
                 k  == Len(ds)
             IN  /\ pc = "Aborted"
                 /\ ret = NotReturned
                 /\ OutputLines("complete") = <<>>
                 /\ bucket = InitialBucket \ Removed(SubSeq(ds, 1, k - 1))
                 /\ OutputLines("deleted") =
                      [j \in 1..(k - 1) |-> <<"deleted", Len(ds[j].Objects), j>>]

\* the third batch failed after two batches had deleted entries
C7_Witness ==
    /\ fn = FnBatch
    /\ pc = "Aborted"
    /\ Len(DeleteCalls(calls)) = 3
    /\ bucket # InitialBucket

(* C8: delete_all_versions returns the list of {Key, VersionId} entries it
   processed; a dry run on a non-empty match returns the candidate list. *)
C8_ReturnsProcessedList ==
    (fn = FnBatch /\ pc \in {"DryRunDone", "Done"}) => ret = ListValue(objects_to_delete)

(* C9: the scan consumes every listing page, and the candidate list holds, in
   order, one entry for each version and then each delete marker of each page
   whose key passes the filter (every entry in delete_all_versions), nothing
   else and nothing merged; with a/x.txt (1 version) and a/error.txt
   (2 versions, 1 delete marker) listed, prefix a/ and search word error, it
   holds exactly the 3 entries of a/error.txt. *)
C9_ScanComplete ==
    /\ objects_to_delete = Expected(page_idx)
    /\ Len(SelectSeq(ListCalls(calls), LAMBDA c : c.result = "ok")) = page_idx
    /\ pc \in {"Reporting", "Purging"} \cup Terminal => page_idx = Len(pages)
    /\ (/\ fn = FnFilter
        /\ search_word = "error"
        /\ page_idx = Len(pages)
        /\ AllRefs(pages) = {r \in SmallRefs : StartsWith(r.Key, "a/")}) =>
          /\ Len(objects_to_delete) = 3
          /\ SeqSet(objects_to_delete) = {r \in SmallRefs : r.Key = "a/error.txt"}

\* the scan of the scenario's listing, over several pages, has been reported
C9_Witness ==
    /\ fn = FnFilter
    /\ search_word = "error"
    /\ prefix = "a/"
    /\ AllRefs(pages) = {r \in SmallRefs : StartsWith(r.Key, "a/")}
    /\ Len(pages) >= 2
    /\ pc = "Reporting"

\* the order of the phases
PhaseOrder ==
    { <<"Idle", "Scanning">>, <<"Scanning", "EmptyDone">>, <<"Scanning", "Reporting">>,
      <<"Scanning", "Aborted">>, <<"Reporting", "DryRunDone">>, <<"Reporting", "Purging">>,
      <<"Purging", "Done">>, <<"Purging", "Aborted">> }

C10_State ==
    /\ LET sent == Sent(DeleteCalls(calls))
       IN  /\ Len(sent) <= Len(objects_to_delete)
           /\ sent = SubSeq(objects_to_delete, 1, Len(sent))
    /\ pc = "Aborted" => (calls # <<>> /\ calls[Len(calls)].result = "raised")
    /\ pc \in Terminal => \A j \in 1..Len(calls) : calls[j].result = "ok"

C10_Step ==
    /\ pc' # pc => <<pc, pc'>> \in PhaseOrder
    /\ Len(calls') \in {Len(calls), Len(calls) + 1}
    /\ Len(ListCalls(calls')) > Len(ListCalls(calls)) =>
          /\ OutputLines("header") = <<>>
          /\ OutputLines("candidate") = <<>>
          /\ DeleteCalls(calls) = <<>>
    /\ Len(DeleteCalls(calls')) > Len(DeleteCalls(calls)) =>
          /\ page_idx = Len(pages)
          /\ Len(ListCalls(calls)) = Len(pages)
          /\ OutputLines("candidate") =
               [j \in 1..Len(objects_to_delete) |->
                   <<"candidate", objects_to_delete[j].Key, objects_to_delete[j].VersionId>>]
          /\ ~dry_run

(* C10: the phases of a run occur in the order scan, report, purge: no
   listing call follows the first reported candidate or the first deletion
   call, the first deletion call follows the last listing page and the report
   of every candidate, deletion calls are issued one at a time in candidate
   order so that the entries sent are always a prefix of the candidate list,
   and every run ends in Empty-Done, Dry-Run-Done or Done unless a backend
   call raises. *)
C10_PhaseOrdering ==
    /\ []C10_State
    /\ [][C10_Step]_vars
    /\ <>(pc \in Terminal \cup {"Aborted"})

\* an execution run over several pages and several deletion calls has completed
C10_Witness ==
    /\ pc = "Done"
    /\ Len(pages) >= 2
    /\ Len(DeleteCalls(calls)) >= 2

====
